---- MODULE Spec2Model ----
(***************************************************************************)
(* A model of basis/basis.py: the Basis object (domain and K with their    *)
(* setters, __call__ with its domain check), the Monomial family           *)
(* (_evaluate_basis and penalty) and the module function default_knots.    *)
(*                                                                         *)
(* Numbers.  Sample locations and domain bounds are integers.  A value the *)
(* code obtains by a true division (a penalty entry, a knot) is kept as an *)
(* exact fraction <<numerator, denominator>> with denominator > 0; two     *)
(* fractions are compared by cross multiplication (RatEq, RatLeq).         *)
(***************************************************************************)
EXTENDS Integers, Sequences, FiniteSets, TLC

VARIABLES
    constructed,  \* TRUE once Monomial(domain, K) has returned an object
    domain,       \* self.__domain of that object (a tuple)
    K,            \* self.__K of that object (an int)
    last          \* the call in hand: its name, arguments and outcome (Idle between calls)

vars == <<constructed, domain, K, last>>

----------------------------------------------------------------------------
(* Bounds of the model. *)

MaxK == 8        \* largest basis count passed to a constructor
MaxQ == 3        \* largest derivative order
MaxN == 2        \* largest number of sample locations in one evaluation
MaxCoord == 1    \* domain bounds and samples are drawn from -1 .. MaxCoord
MaxM == 4        \* largest spline order passed to default_knots

Coords == -1 .. MaxCoord
Samples == -2 .. (MaxCoord + 1)

\* tuples of length 0 .. n over S
SeqsUpTo(S, n) == UNION {[1 .. len -> S] : len \in 0 .. n}

----------------------------------------------------------------------------
(* Arithmetic helpers. *)

RECURSIVE Pow(_, _)
\* Python's b ** e for an integer e >= 0 (0 ** 0 is 1)
Pow(b, e) == IF e <= 0 THEN 1 ELSE b * Pow(b, e - 1)

RECURSIVE ProdRange(_, _)
\* np.prod(range(lo, hi)): the product of lo, lo+1, .., hi-1 (1 when empty)
ProdRange(lo, hi) == IF lo >= hi THEN 1 ELSE lo * ProdRange(lo + 1, hi)

RatEq(r, s) == r[1] * s[2] = s[1] * r[2]
RatLeq(r, s) == r[1] * s[2] <= s[1] * r[2]

----------------------------------------------------------------------------
(* Outcomes. *)

NoError == "none"
DomainLengthError == "ValueError: domain must be of length 2."
IntError == "ValueError: invalid literal for int()"
DomainError == "ValueError: Arguments must all be within the domain of the basis system"
NegativeDimError == "ValueError: negative dimensions are not allowed"
SamplesError == "ValueError: Number of samples must be non-negative."
PadError == "ValueError: index can't contain negative values"
EmptyPadError == "ValueError: can't extend empty axis 0 using modes other than 'constant' or 'empty'"

Idle ==
    [op |-> "none", raised |-> NoError, invoked |-> FALSE, d |-> <<>>,
     k |-> [kind |-> "int", v |-> 0], x |-> <<>>, q |-> 0, m |-> 0, ret |-> <<>>]

----------------------------------------------------------------------------
(* Constructor arguments. *)

\* what callers pass as a domain: tuples of length 0 .. 3
DomainInputs == SeqsUpTo(Coords, 2) \cup [1 .. 3 -> {0, 1}]

\* what callers pass as K: ints, floats (as halves) and strings (as characters)
KInputs ==
    [kind : {"int"}, v : -1 .. MaxK]
        \cup [kind : {"float"}, v : {<<-3, 2>>, <<1, 2>>, <<5, 2>>}]
        \cup [kind : {"str"}, v : {<<"f", "o", "o">>, <<"3">>, <<>>}]

Digits == <<"0", "1", "2", "3", "4", "5", "6", "7", "8", "9">>
IsDigit(c) == \E i \in 1 .. 10 : Digits[i] = c
DigitValue(c) == (CHOOSE i \in 1 .. 10 : Digits[i] = c) - 1

RECURSIVE ParseDigits(_)
ParseDigits(s) ==
    IF s = <<>> THEN 0
    ELSE 10 * ParseDigits(SubSeq(s, 1, Len(s) - 1)) + DigitValue(s[Len(s)])

\* whether Python's int(k) returns rather than raises
IntConvertible(k) ==
    CASE k.kind = "int" -> TRUE
      [] k.kind = "float" -> TRUE
      [] k.kind = "str" -> Len(k.v) > 0 /\ \A i \in 1 .. Len(k.v) : IsDigit(k.v[i])

\* Python's int(k): a float is truncated toward zero, a string is parsed
int(k) ==
    CASE k.kind = "int" -> k.v
      [] k.kind = "float" ->
            IF k.v[1] >= 0 THEN k.v[1] \div k.v[2] ELSE -((-k.v[1]) \div k.v[2])
      [] k.kind = "str" -> ParseDigits(k.v)

----------------------------------------------------------------------------
(* Basis: the setters. *)

\* a setter that stores the value before it checks its length
domain_setter_store_first(cur, d) ==
    IF Len(d) # 2
    THEN [raised |-> DomainLengthError, domain |-> d]
    ELSE [raised |-> NoError, domain |-> d]

\* Basis.domain setter on an object whose stored domain is cur
domain_setter(cur, d) ==
    IF Len(d) # 2
    THEN [raised |-> DomainLengthError, domain |-> cur]
    ELSE [raised |-> NoError, domain |-> d]

\* a setter that also rejects a K below 1
K_setter_positive(cur, k) ==
    IF IntConvertible(k) /\ int(k) >= 1
    THEN [raised |-> NoError, K |-> int(k)]
    ELSE [raised |-> IntError, K |-> cur]

\* Basis.K setter on an object whose stored K is cur
K_setter(cur, k) ==
    IF IntConvertible(k)
    THEN [raised |-> NoError, K |-> int(k)]
    ELSE [raised |-> IntError, K |-> cur]

----------------------------------------------------------------------------
(* Monomial._evaluate_basis. *)

\* a row of np.vander(x, N) with the default increasing=False
VanderRow_decreasing(t, N) ==
    LET col[c \in 1 .. N] == IF c = 1 THEN 1 ELSE col[c - 1] * t
    IN  [c \in 1 .. N |-> col[N + 1 - c]]

\* one row of np.vander(x, N, increasing=True): 1, t, t*t, .. by accumulation
VanderRow(t, N) ==
    LET col[c \in 1 .. N] == IF c = 1 THEN 1 ELSE col[c - 1] * t
    IN  [c \in 1 .. N |-> col[c]]

vander(x, N) == [r \in 1 .. Len(x) |-> VanderRow(x[r], N)]

\* fac with the range one place too low: range(f - q, f)
fac_low(f, q) == IF f > 0 THEN ProdRange(f - q, f) ELSE 0

\* the entry of the list fac for f in range(0, deg)
fac(f, q) == IF f > 0 THEN ProdRange(f + 1 - q, f + 1) ELSE 0

\* (np.c_[np.ones((len(x), q)), monomial_vecs])[:, :-q]
shifted(V, q) ==
    [r \in 1 .. Len(V) |->
        LET row == [c \in 1 .. q |-> 1] \o V[r]
        IN  SubSeq(row, 1, Len(row) - q)]

evaluate_basis(deg, x, q) ==
    LET monomial_vecs == vander(x, deg)
    IN  IF q # 0
        THEN [r \in 1 .. Len(x) |->
                [c \in 1 .. deg |-> fac(c - 1, q) * shifted(monomial_vecs, q)[r][c]]]
        ELSE monomial_vecs

----------------------------------------------------------------------------
(* Basis.__call__. *)

\* the check with np.less in place of np.less_equal
InDomain_strict(dom, x) ==
    /\ \A i \in 1 .. Len(x) : dom[1] < x[i]
    /\ \A i \in 1 .. Len(x) : x[i] < dom[2]

\* np.all(np.less_equal(domain[0], x)) and np.all(np.less_equal(x, domain[1]))
InDomain(dom, x) ==
    /\ \A i \in 1 .. Len(x) : dom[1] <= x[i]
    /\ \A i \in 1 .. Len(x) : x[i] <= dom[2]

Basis_call(dom, deg, x, q) ==
    IF ~InDomain(dom, x)
    THEN [raised |-> DomainError, invoked |-> FALSE, ret |-> <<>>]
    ELSE IF deg < 0
         THEN [raised |-> NegativeDimError, invoked |-> TRUE, ret |-> <<>>]
         ELSE [raised |-> NoError, invoked |-> TRUE, ret |-> evaluate_basis(deg, x, q)]

----------------------------------------------------------------------------
(* Monomial.penalty. *)

\* np.ones((K, K)) in place of np.zeros
ones(n) == [i \in 1 .. n |-> [j \in 1 .. n |-> <<1, 1>>]]

\* np.zeros((K, K)), entries kept as fractions
zeros(n) == [i \in 1 .. n |-> [j \in 1 .. n |-> <<0, 1>>]]

RECURSIVE descending_low(_, _, _)
\* the factor i - k in place of i - k + 1
descending_low(i, k, q) ==
    IF k > q THEN 1 ELSE (i - k) * descending_low(i, k + 1, q)

RECURSIVE descending(_, _, _)
\* ifac after the rounds k, k+1, .., q of "for k in np.arange(1, q + 1): ifac *= i - k + 1"
descending(i, k, q) ==
    IF k > q THEN 1 ELSE (i - k + 1) * descending(i, k + 1, q)

ipow(i, j, q) == i + j - 2 * q + 1

\* the value stored into inner_product[i, j]
entry(dom, i, j, q) ==
    <<(Pow(dom[2], ipow(i, j, q)) - Pow(dom[1], ipow(i, j, q)))
          * descending(i, 1, q) * descending(j, 1, q),
      ipow(i, j, q)>>

\* the loop body without its second assignment
store_upper(P, i, j, v) == [P EXCEPT ![i + 1][j + 1] = v]

\* the two assignments of the inner loop body (indices are 0-based in the code)
store(P, i, j, v) ==
    LET P1 == [P EXCEPT ![i + 1][j + 1] = v]
    IN  [P1 EXCEPT ![j + 1][i + 1] = P1[i + 1][j + 1]]

RECURSIVE inner_loop(_, _, _, _, _, _)
\* for j in np.arange(i, K), from j on
inner_loop(P, dom, deg, i, j, q) ==
    IF j >= deg THEN P
    ELSE inner_loop(store(P, i, j, entry(dom, i, j, q)), dom, deg, i, j + 1, q)

RECURSIVE outer_loop(_, _, _, _, _)
\* for i in np.arange(q, K), from i on
outer_loop(P, dom, deg, i, q) ==
    IF i >= deg THEN P
    ELSE outer_loop(inner_loop(P, dom, deg, i, i, q), dom, deg, i + 1, q)

Monomial_penalty(dom, deg, q) ==
    IF deg < 0
    THEN [raised |-> NegativeDimError, ret |-> <<>>]
    ELSE [raised |-> NoError, ret |-> outer_loop(zeros(deg), dom, deg, q, q)]

----------------------------------------------------------------------------
(* default_knots. *)

\* np.linspace(a, b, num) for num >= 0: i * step + a with step = (b - a) / (num - 1),
\* and the last point set to b
linspace(a, b, num) ==
    [i \in 1 .. num |->
        IF num = 1 THEN <<a, 1>>
        ELSE IF i = num THEN <<b, 1>>
        ELSE <<(i - 1) * (b - a) + a * (num - 1), num - 1>>]

\* np.pad(tau, (before, after), 'edge') of a non-empty tau, or with no padding
pad_edge(tau, before, after) ==
    [i \in 1 .. before |-> tau[1]] \o tau \o [i \in 1 .. after |-> tau[Len(tau)]]

default_knots(m, k, dom) ==
    LET L == k - m
    IN  IF L + 2 < 0 THEN [raised |-> SamplesError, ret |-> <<>>]
        ELSE IF m - 2 < 0 THEN [raised |-> PadError, ret |-> <<>>]
        ELSE IF L + 2 = 0 /\ m - 2 > 0 THEN [raised |-> EmptyPadError, ret |-> <<>>]
        ELSE [raised |-> NoError,
              ret |-> pad_edge(linspace(dom[1], dom[2], L + 2), m - 2, m - 2)]

----------------------------------------------------------------------------
(* The object's operations. *)

Init ==
    /\ constructed = FALSE
    /\ domain = <<>>
    /\ K = 0
    /\ last = Idle

\* Monomial(d, k): Basis.__init__ runs the domain setter, then the K setter
Construct ==
    /\ last = Idle
    /\ ~constructed
    /\ \E d \in DomainInputs, k \in KInputs :
        LET sd == domain_setter(domain, d)
            sk == K_setter(K, k)
            err == IF sd.raised # NoError THEN sd.raised ELSE sk.raised
        IN  /\ constructed' = (err = NoError)
            /\ domain' = IF err = NoError THEN sd.domain ELSE domain
            /\ K' = IF err = NoError THEN sk.K ELSE K
            /\ last' = [Idle EXCEPT !.op = "construct", !.raised = err,
                                    !.d = d, !.k = k]

\* basis.domain = d
SetDomain ==
    /\ last = Idle
    /\ constructed
    /\ \E d \in DomainInputs :
        LET sd == domain_setter(domain, d)
        IN  /\ domain' = sd.domain
            /\ last' = [Idle EXCEPT !.op = "set_domain", !.raised = sd.raised, !.d = d]
    /\ UNCHANGED <<constructed, K>>

\* basis(x, q)
Call ==
    /\ last = Idle
    /\ constructed
    /\ \E x \in SeqsUpTo(Samples, MaxN), q \in 0 .. MaxQ :
        LET r == Basis_call(domain, K, x, q)
        IN  last' = [Idle EXCEPT !.op = "call", !.raised = r.raised,
                                 !.invoked = r.invoked, !.x = x, !.q = q,
                                 !.ret = r.ret]
    /\ UNCHANGED <<constructed, domain, K>>

\* basis.penalty(q)
Penalty ==
    /\ last = Idle
    /\ constructed
    /\ \E q \in 0 .. MaxQ :
        LET r == Monomial_penalty(domain, K, q)
        IN  last' = [Idle EXCEPT !.op = "penalty", !.raised = r.raised,
                                 !.q = q, !.ret = r.ret]
    /\ UNCHANGED <<constructed, domain, K>>

\* the caller takes the returned value (or handles the exception) and goes on
Return ==
    /\ last # Idle
    /\ last' = Idle
    /\ UNCHANGED <<constructed, domain, K>>

Next == Construct \/ SetDomain \/ Call \/ Penalty \/ Return

Spec == Init /\ [][Next]_vars

----------------------------------------------------------------------------
(* The module function default_knots, called on its own. *)

\* default_knots(m, k, d)
DefaultKnots ==
    /\ last = Idle
    /\ \E m \in 0 .. MaxM, k \in 0 .. MaxK, d \in Coords \X Coords :
        LET r == default_knots(m, k, d)
        IN  last' = [Idle EXCEPT !.op = "default_knots", !.raised = r.raised,
                                 !.m = m, !.k = [kind |-> "int", v |-> k],
                                 !.d = d, !.ret = r.ret]
    /\ UNCHANGED <<constructed, domain, K>>

NextKnots == DefaultKnots \/ Return

SpecKnots == Init /\ [][NextKnots]_vars

----------------------------------------------------------------------------
(* Operators used to state the properties. *)

\* some sample of x lies outside the closed interval [dom[1], dom[2]]
SomeOutside(dom, x) == \E i \in 1 .. Len(x) : x[i] < dom[1] \/ x[i] > dom[2]

RECURSIVE FallingFactorial(_, _)
\* k (k-1) ... (k-q+1)
FallingFactorial(k, q) == IF q = 0 THEN 1 ELSE k * FallingFactorial(k - 1, q - 1)

\* the coefficient of column k of the q-th derivative, read off evaluate at t = 1
DerivCoef(deg, k, q) == evaluate_basis(deg, <<1>>, q)[1][k + 1]

\* the integral over [a, b] of c * t^e, as a fraction
IntegralOfTerm(c, e, a, b) == <<c * (Pow(b, e + 1) - Pow(a, e + 1)), e + 1>>

IsMatrix(M, rows, cols) ==
    /\ Len(M) = rows
    /\ \A r \in 1 .. rows : Len(M[r]) = cols

CallReturned == last.op = "call" /\ last.raised = NoError
PenaltyReturned == last.op = "penalty" /\ last.raised = NoError
KnotsReturned == last.op = "default_knots" /\ last.raised = NoError

----------------------------------------------------------------------------
(* C1: __call__ fails with the domain error exactly when some sample lies   *)
(* outside the closed interval of the stored domain; the failure comes      *)
(* before _evaluate_basis is invoked, and samples on a bound are accepted.  *)
C1_DomainCheck ==
    last.op = "call" =>
        /\ (last.raised = DomainError) <=> SomeOutside(domain, last.x)
        /\ last.raised = DomainError => ~last.invoked /\ last.ret = <<>>
        /\ ~SomeOutside(domain, last.x) => last.invoked

C1_Witness ==
    /\ last.op = "call"
    /\ last.raised = DomainError
    /\ ~last.invoked
    /\ \E i \in 1 .. Len(last.x) : last.x[i] = domain[2]

(* C2: with q = 0 a Monomial evaluation returns an n-by-K matrix whose      *)
(* column i is x**i; column 0 is all ones, also at x = 0.                   *)
C2_MonomialColumns ==
    (CallReturned /\ last.q = 0) =>
        /\ IsMatrix(last.ret, Len(last.x), K)
        /\ \A r \in 1 .. Len(last.x) :
            /\ \A i \in 0 .. K - 1 : last.ret[r][i + 1] = Pow(last.x[r], i)
            /\ K >= 1 => last.ret[r][1] = 1

C2_Witness ==
    /\ CallReturned
    /\ last.q = 0
    /\ K >= 3
    /\ Len(last.x) = 2
    /\ last.x[1] = 0
    /\ last.x[2] = -1

C4_PenaltyEntries ==
    PenaltyReturned =>
        /\ \A i \in last.q .. K - 1 : \A j \in last.q .. K - 1 :
            LET p == i + j - 2 * last.q + 1
            IN  /\ last.ret[i + 1][j + 1] =
                       <<(Pow(domain[2], p) - Pow(domain[1], p))
                             * FallingFactorial(i, last.q) * FallingFactorial(j, last.q),
                         p>>
                /\ last.ret[i + 1][j + 1] =
                       IntegralOfTerm(DerivCoef(K, i, last.q) * DerivCoef(K, j, last.q),
                                      (i - last.q) + (j - last.q), domain[1], domain[2])
        /\ (domain = <<0, 1>> /\ K = 8 /\ last.q = 1) =>
            LET row == <<(<<0, 1>>), (<<1, 1>>), (<<3, 2>>), (<<9, 5>>),
                         (<<2, 1>>), (<<15, 7>>), (<<9, 4>>), (<<7, 3>>)>>
            IN  \A j \in 1 .. 8 : RatEq(last.ret[4][j], row[j])

C4_Witness ==
    /\ PenaltyReturned
    /\ domain = <<0, 1>>
    /\ K = 8
    /\ last.q = 1
    /\ last.ret[4][3] = <<6, 4>>

(* C5: the matrix returned by Monomial.penalty(q) is K-by-K and symmetric.  *)
C5_PenaltySymmetric ==
    PenaltyReturned =>
        /\ IsMatrix(last.ret, K, K)
        /\ \A i \in 1 .. K : \A j \in 1 .. K : last.ret[i][j] = last.ret[j][i]

C5_Witness ==
    /\ PenaltyReturned
    /\ K >= 3
    /\ last.ret[2][3][1] # 0
    /\ last.ret[2][3] # last.ret[2][2]

(* C6: penalty(q)[i, j] is 0 whenever i < q or j < q; with q >= K the whole *)
(* matrix is zero.                                                          *)
C6_PenaltyZeroBlock ==
    PenaltyReturned =>
        /\ \A i \in 0 .. K - 1 : \A j \in 0 .. K - 1 :
            (i < last.q \/ j < last.q) => last.ret[i + 1][j + 1][1] = 0
        /\ last.q >= K =>
            \A i \in 1 .. K : \A j \in 1 .. K : last.ret[i][j][1] = 0

C6_Witness ==
    /\ PenaltyReturned
    /\ last.q = 2
    /\ K >= 4
    /\ last.ret[1][4][1] = 0
    /\ last.ret[4][4][1] # 0

(* C7: the stored domain of a constructed basis always has length 2; an     *)
(* assignment of a value whose length is not 2 fails with the validation    *)
(* error and leaves the stored domain and K as they were, and an evaluation *)
(* checks its samples against the stored domain.                            *)
C7_DomainAssignment ==
    [][
        /\ constructed' => Len(domain') = 2
        /\ last'.op = "set_domain" =>
            /\ (last'.raised = DomainLengthError) <=> (Len(last'.d) # 2)
            /\ last'.raised = DomainLengthError => domain' = domain /\ K' = K
            /\ last'.raised = NoError => domain' = last'.d /\ K' = K
        /\ last'.op = "call" =>
            ((last'.raised = DomainError) <=> SomeOutside(domain, last'.x))
    ]_vars

C7_Witness ==
    /\ constructed
    /\ last.op = "set_domain"
    /\ last.raised = DomainLengthError
    /\ Len(last.d) = 3
    /\ Len(domain) = 2

(* C8, as stated: K is validated as a positive integer at construction:     *)
(* after a successful construction K >= 1, and a K that is not a positive   *)
(* integer (0, a negative number) fails with a validation error.            *)
C8_PositiveK ==
    last.op = "construct" =>
        /\ last.raised = NoError => K \in Int /\ K >= 1
        /\ (last.k.kind = "int" /\ last.k.v < 1) => last.raised # NoError

(* C8, amended: K is coerced with int(), not validated as positive: after a *)
(* successful construction the stored K is an integer (an int as is, a      *)
(* float truncated toward zero); 0 and negative numbers are accepted and    *)
(* stored; only a K that is not integer-convertible fails.                  *)
C8_CoercedK ==
    last.op = "construct" =>
        /\ last.raised = NoError => constructed /\ K \in Int
        /\ (last.k.kind = "int" /\ Len(last.d) = 2) =>
            last.raised = NoError /\ K = last.k.v
        /\ (last.k.kind = "float" /\ Len(last.d) = 2) =>
            /\ last.raised = NoError
            /\ IF last.k.v[1] >= 0
               THEN K * last.k.v[2] <= last.k.v[1] /\ last.k.v[1] < (K + 1) * last.k.v[2]
               ELSE K * last.k.v[2] >= last.k.v[1] /\ last.k.v[1] > (K - 1) * last.k.v[2]
        /\ last.raised = IntError => last.k.kind = "str" /\ ~constructed

C8_Witness ==
    /\ last.op = "construct"
    /\ last.raised = NoError
    /\ constructed
    /\ last.k.kind = "int"
    /\ K = -1

(* C9: for an order m and a basis count K >= m the vector computed by       *)
(* default_knots(m, K, domain) has length K + m.                            *)
C9_KnotsLength ==
    (KnotsReturned /\ last.k.v >= last.m) => Len(last.ret) = last.k.v + last.m

(* C10: for a < b and K >= m the default knot vector is non-decreasing and  *)
(* clamped: K-m+2 evenly spaced breakpoints from a to b with each of a and  *)
(* b occurring exactly m times; for domain (-1,1), K = 8, m = 3 it is       *)
(* [-1,-1,-1,-2/3,-1/3,0,1/3,2/3,1,1,1].                                    *)
C10_KnotsClamped ==
    (KnotsReturned /\ last.k.v >= last.m /\ last.d[1] < last.d[2]) =>
        LET t == last.ret
            a == <<last.d[1], 1>>
            b == <<last.d[2], 1>>
            n == last.k.v - last.m + 2
        IN  /\ \A i \in 1 .. Len(t) - 1 : RatLeq(t[i], t[i + 1])
            /\ Cardinality({i \in 1 .. Len(t) : RatEq(t[i], a)}) = last.m
            /\ Cardinality({i \in 1 .. Len(t) : RatEq(t[i], b)}) = last.m
            /\ \A i \in 1 .. n :
                 RatEq(t[last.m - 1 + i],
                       <<last.d[1] * (n - 1) + (i - 1) * (last.d[2] - last.d[1]), n - 1>>)
            /\ (last.d = <<-1, 1>> /\ last.k.v = 8 /\ last.m = 3) =>
                 /\ Len(t) = 11
                 /\ \A i \in 1 .. 11 :
                      RatEq(t[i], <<(<<-3, -3, -3, -2, -1, 0, 1, 2, 3, 3, 3>>)[i], 3>>)

====
